---- MODULE Spec2Model ----
(***************************************************************************)
(* A model of pagerank.py: transition_model, sample_pagerank and           *)
(* iterate_pagerank, each run on a corpus drawn from a bounded set of      *)
(* link graphs.  Pages are numbered 1..MaxPages (the source names them by  *)
(* file name).  Python floats are modelled as exact rationals <<num, den>> *)
(* in lowest terms with den > 0, so "sums to 1" is checked exactly where   *)
(* the program's floats agree up to rounding.                              *)
(***************************************************************************)
EXTENDS Integers, FiniteSets, Sequences, TLC

\* ---------------------------------------------------------------- bounds
MaxPages == 3
MaxSamples == 2
MaxPasses == 2

\* ------------------------------------------------------------- rationals
Abs(x) == IF x < 0 THEN -x ELSE x

RECURSIVE GCD(_, _)
GCD(a, b) == IF b = 0 THEN a ELSE GCD(b, a % b)

Rat(num, den) ==
    LET g == GCD(Abs(num), Abs(den))
        s == IF den < 0 THEN -1 ELSE 1
    IN  <<(s * num) \div g, (s * den) \div g>>

Zero == <<0, 1>>
One == <<1, 1>>
RAdd(x, y) ==
    LET g == GCD(x[2], y[2])
    IN  Rat(x[1] * (y[2] \div g) + y[1] * (x[2] \div g), (x[2] \div g) * y[2])
RNeg(x) == <<-x[1], x[2]>>
RSub(x, y) == RAdd(x, RNeg(y))
RMul(x, y) == Rat(x[1] * y[1], x[2] * y[2])
\* x / k for a positive integer k (every divisor in the source is a len())
RDivInt(x, k) == Rat(x[1], x[2] * k)
RAbs(x) == <<Abs(x[1]), x[2]>>
RLe(x, y) == x[1] * y[2] <= y[1] * x[2]
RLt(x, y) == x[1] * y[2] < y[1] * x[2]

\* ---------------------------------------------------------------- inputs
AllPages == 1..MaxPages
None == 0

\* DAMPING = 0.85
DAMPING == <<17, 20>>
\* abs_tol=0.001
AbsTol == <<1, 1000>>

\* damping factors the functions are called with (they validate nothing)
Dampings == {Zero, <<1, 2>>, DAMPING, One}

\* what crawl() can return: every page maps to a set of other pages of the
\* corpus (no self-link, no link out of the corpus); the empty corpus included
Corpora ==
    UNION {{c \in [S -> SUBSET S] : \A p \in S : p \notin c[p]} : S \in SUBSET AllPages}

len(S) == Cardinality(S)
First(S) == CHOOSE x \in S : \A y \in S : x <= y

VARIABLES
    fn,              \* the function called
    corpus,          \* its corpus argument
    damping_factor,  \* its damping_factor argument
    page,            \* transition_model's page argument
    n,               \* sample_pagerank's n argument
    pc,              \* position in the called function
    rank, newRank, condition,   \* locals of sample_pagerank / iterate_pagerank
    temp, i,         \* locals of sample_pagerank
    dist,            \* local of transition_model
    todo,            \* pages the running for-loop has still to visit
    ret, err,        \* value returned / exception raised
    passes,          \* history: executions of the while body completed
    snapshot         \* history: rank as it was when the while body was entered

vars == <<fn, corpus, damping_factor, page, n, pc, rank, newRank, condition,
          temp, i, dist, todo, ret, err, passes, snapshot>>

NoDict == <<>>
NoValue == [type |-> "none", dict |-> NoDict, int |-> 0]
DictValue(d) == [type |-> "dict", dict |-> d, int |-> 0]
IntValue(k) == [type |-> "int", dict |-> NoDict, int |-> k]

Put(f, k, v) == [x \in DOMAIN f \cup {k} |-> IF x = k THEN v ELSE f[x]]

Init ==
    /\ fn \in {"transition_model", "sample_pagerank", "iterate_pagerank"}
    /\ corpus \in Corpora
    /\ damping_factor \in Dampings
    /\ page \in IF fn = "transition_model" THEN AllPages ELSE {None}
    /\ n \in IF fn = "sample_pagerank" THEN 0..MaxSamples ELSE {0}
    /\ pc = "call"
    /\ rank = NoDict
    /\ newRank = NoDict
    /\ condition = FALSE
    /\ todo = {}
    /\ dist = NoDict
    /\ temp = None
    /\ i = 0
    /\ ret = NoValue
    /\ err = "none"
    /\ passes = 0
    /\ snapshot = NoDict

Raise(e) ==
    /\ pc' = "raised"
    /\ err' = e

\* ------------------------------------------------------ transition_model
\* mutant: the link share divided by the corpus size, not by the out-degree
LinkedProb_DivByN(c, pg, d, p) ==
    LET base == RDivInt(RSub(One, d), len(DOMAIN c))
    IN  IF p \in c[pg] THEN RAdd(base, RDivInt(d, len(DOMAIN c))) ELSE base

\* mutant: the link share assigned with = where the source has +=
LinkedProb_Overwrite(c, pg, d, p) ==
    IF p \in c[pg] THEN RDivInt(d, len(c[pg]))
    ELSE RDivInt(RSub(One, d), len(DOMAIN c))

\* dist[i] in the branch taken when the current page has links
LinkedProb(c, pg, d, p) ==
    LET base == RDivInt(RSub(One, d), len(DOMAIN c))
    IN  IF p \in c[pg] THEN RAdd(base, RDivInt(d, len(c[pg]))) ELSE base

\* dist[i] in the branch taken when the current page has no links
DanglingProb(c, p) == RDivInt(One, len(DOMAIN c))

TMCall ==
    /\ pc = "call"
    /\ fn = "transition_model"
    /\ IF page \notin DOMAIN corpus
       THEN /\ Raise("KeyError")
            /\ UNCHANGED <<dist, todo>>
       ELSE /\ dist' = NoDict
            /\ todo' = DOMAIN corpus
            /\ pc' = IF corpus[page] # {} THEN "tm_links" ELSE "tm_dangling"
            /\ err' = err
    /\ UNCHANGED <<fn, corpus, damping_factor, page, n, rank, newRank, condition,
                   temp, i, ret, passes, snapshot>>

TMLinkedPage ==
    /\ pc = "tm_links"
    /\ todo # {}
    /\ LET p == First(todo)
       IN  /\ dist' = Put(dist, p, LinkedProb(corpus, page, damping_factor, p))
           /\ todo' = todo \ {p}
    /\ UNCHANGED <<fn, corpus, damping_factor, page, n, pc, rank, newRank,
                   condition, temp, i, ret, err, passes, snapshot>>

TMDanglingPage ==
    /\ pc = "tm_dangling"
    /\ todo # {}
    /\ LET p == First(todo)
       IN  /\ dist' = Put(dist, p, DanglingProb(corpus, p))
           /\ todo' = todo \ {p}
    /\ UNCHANGED <<fn, corpus, damping_factor, page, n, pc, rank, newRank,
                   condition, temp, i, ret, err, passes, snapshot>>

TMReturn ==
    /\ pc \in {"tm_links", "tm_dangling"}
    /\ todo = {}
    /\ ret' = DictValue(dist)
    /\ pc' = "done"
    /\ UNCHANGED <<fn, corpus, damping_factor, page, n, rank, newRank, condition,
                   todo, dist, temp, i, err, passes, snapshot>>

\* the whole distribution, as sample_pagerank receives it from the call
TransitionModel(c, pg, d) ==
    [p \in DOMAIN c |->
        IF c[pg] # {} THEN LinkedProb(c, pg, d, p) ELSE DanglingProb(c, p)]

\* ------------------------------------------------------- sample_pagerank
SampleInit ==
    /\ pc = "call"
    /\ fn = "sample_pagerank"
    /\ rank' = [p \in DOMAIN corpus |-> 0]
    /\ temp' = None
    /\ i' = 0
    /\ pc' = "sample_loop"
    /\ UNCHANGED <<fn, corpus, damping_factor, page, n, newRank, condition, dist,
                   todo, ret, err, passes, snapshot>>

\* One execution of the for body.  random.choice takes a single positional
\* argument: the keyword k= (and weight=) makes either call raise TypeError
\* before a page is drawn, so rank[temp] += 1 is never executed.
SampleStep ==
    /\ pc = "sample_loop"
    /\ i < n
    /\ IF temp = None
       THEN Raise("TypeError")
       ELSE LET model == TransitionModel(corpus, temp, damping_factor)
                pop == DOMAIN model
            IN  Raise("TypeError")
    /\ UNCHANGED <<fn, corpus, damping_factor, page, n, rank, newRank, condition,
                   temp, i, dist, todo, ret, passes, snapshot>>

\* After the for loop: finalRank = 0, then for every page finalRank = rank/n
\* divides the dict rank by n (TypeError); with no page finalRank is returned.
SampleNormalise ==
    /\ pc = "sample_loop"
    /\ i >= n
    /\ IF DOMAIN corpus # {}
       THEN /\ Raise("TypeError")
            /\ ret' = ret
       ELSE /\ ret' = IntValue(0)
            /\ pc' = "done"
            /\ err' = err
    /\ UNCHANGED <<fn, corpus, damping_factor, page, n, rank, newRank, condition,
                   temp, i, dist, todo, passes, snapshot>>

\* ------------------------------------------------------ iterate_pagerank
\* math.isclose(a, b, abs_tol=0.001): |a-b| <= max(1e-09 * max(|a|,|b|), 0.001);
\* the relative term is below abs_tol for every |a|, |b| <= 10^6
IsClose(a, b) == RLe(RAbs(RSub(a, b)), AbsTol)

\* mutant: the inner loop without the share of the pages that link nowhere
RECURSIVE Number_NoDangling(_, _, _, _)
Number_NoDangling(c, rk, p, left) ==
    IF left = {} THEN Zero
    ELSE LET linkedPage == First(left)
             a == IF p \in c[linkedPage]
                  THEN RDivInt(rk[linkedPage], len(c[linkedPage])) ELSE Zero
         IN  RAdd(a, Number_NoDangling(c, rk, p, left \ {linkedPage}))

\* the inner loop "for linkedPage in corpus" over the pages in `left`
RECURSIVE Number(_, _, _, _)
Number(c, rk, p, left) ==
    IF left = {} THEN Zero
    ELSE LET linkedPage == First(left)
             a == IF p \in c[linkedPage]
                  THEN RDivInt(rk[linkedPage], len(c[linkedPage])) ELSE Zero
             b == IF c[linkedPage] = {}
                  THEN RDivInt(rk[linkedPage], len(DOMAIN c)) ELSE Zero
         IN  RAdd(RAdd(a, b), Number(c, rk, p, left \ {linkedPage}))

\* mutant: the update without the (1-damping_factor)/len(corpus) term
NewRankOf_NoTeleport(c, d, rk, p) == RMul(d, Number(c, rk, p, DOMAIN c))

\* newRank[i] = (1-damping_factor)/len(corpus) + damping_factor*number
NewRankOf(c, d, rk, p) ==
    RAdd(RDivInt(RSub(One, d), len(DOMAIN c)), RMul(d, Number(c, rk, p, DOMAIN c)))

IterInit ==
    /\ pc = "call"
    /\ fn = "iterate_pagerank"
    /\ rank' = [p \in DOMAIN corpus |-> RDivInt(One, len(DOMAIN corpus))]
    /\ newRank' = NoDict
    /\ condition' = TRUE
    /\ pc' = "while"
    /\ UNCHANGED <<fn, corpus, damping_factor, page, n, temp, i, dist, todo, ret,
                   err, passes, snapshot>>

\* while condition: true, the body starts its "for i in rank"
WhileEnter ==
    /\ pc = "while"
    /\ condition
    /\ passes < MaxPasses
    /\ todo' = DOMAIN rank
    /\ snapshot' = rank
    /\ pc' = "pass"
    /\ UNCHANGED <<fn, corpus, damping_factor, page, n, rank, newRank, condition,
                   temp, i, dist, ret, err, passes>>

\* mutant: the pass writes each new value into rank as well (in-place update)
PassPage_InPlace ==
    /\ pc = "pass"
    /\ todo # {}
    /\ LET p == First(todo)
           v == NewRankOf(corpus, damping_factor, rank, p)
       IN  /\ newRank' = Put(newRank, p, v)
           /\ rank' = [rank EXCEPT ![p] = v]
           /\ todo' = todo \ {p}
    /\ UNCHANGED <<fn, corpus, damping_factor, page, n, pc, condition, temp,
                   i, dist, ret, err, passes, snapshot>>

PassPage ==
    /\ pc = "pass"
    /\ todo # {}
    /\ LET p == First(todo)
       IN  /\ newRank' = Put(newRank, p, NewRankOf(corpus, damping_factor, rank, p))
           /\ todo' = todo \ {p}
    /\ UNCHANGED <<fn, corpus, damping_factor, page, n, pc, rank, condition, temp,
                   i, dist, ret, err, passes, snapshot>>

\* mutant: the while body ends without clearing the flag
PassEnd_FlagKept ==
    /\ pc = "pass"
    /\ todo = {}
    /\ passes' = passes + 1
    /\ pc' = "while"
    /\ UNCHANGED <<fn, corpus, damping_factor, page, n, rank, newRank, condition,
                   temp, i, dist, todo, ret, err, snapshot>>

\* condition = False, the last statement of the while body
PassEnd ==
    /\ pc = "pass"
    /\ todo = {}
    /\ condition' = FALSE
    /\ passes' = passes + 1
    /\ pc' = "while"
    /\ UNCHANGED <<fn, corpus, damping_factor, page, n, rank, newRank, temp, i,
                   dist, todo, ret, err, snapshot>>

\* while condition: false, control reaches the "for i in rank" after the loop
WhileExit ==
    /\ pc = "while"
    /\ ~condition
    /\ todo' = DOMAIN rank
    /\ pc' = "compare"
    /\ UNCHANGED <<fn, corpus, damping_factor, page, n, rank, newRank, condition,
                   temp, i, dist, ret, err, passes, snapshot>>

ComparePage ==
    /\ pc = "compare"
    /\ todo # {}
    /\ LET p == First(todo)
       IN  /\ condition' = IF ~IsClose(newRank[p], rank[p]) THEN TRUE ELSE condition
           /\ rank' = [rank EXCEPT ![p] = newRank[p]]
           /\ todo' = todo \ {p}
    /\ UNCHANGED <<fn, corpus, damping_factor, page, n, pc, newRank, temp, i, dist,
                   ret, err, passes, snapshot>>

IterReturn ==
    /\ pc = "compare"
    /\ todo = {}
    /\ ret' = DictValue(rank)
    /\ pc' = "done"
    /\ UNCHANGED <<fn, corpus, damping_factor, page, n, rank, newRank, condition,
                   temp, i, dist, todo, err, passes, snapshot>>

Next ==
    \/ TMCall
    \/ TMLinkedPage
    \/ TMDanglingPage
    \/ TMReturn
    \/ SampleInit
    \/ SampleStep
    \/ SampleNormalise
    \/ IterInit
    \/ WhileEnter
    \/ PassPage
    \/ PassEnd
    \/ WhileExit
    \/ ComparePage
    \/ IterReturn

Spec == Init /\ [][Next]_vars

\* ------------------------------------------------------------ properties
Pages == DOMAIN corpus
N == len(Pages)
InOpenUnit(d) == RLt(Zero, d) /\ RLt(d, One)

RECURSIVE RSum(_, _)
RSum(f, S) ==
    IF S = {} THEN Zero
    ELSE LET p == CHOOSE x \in S : TRUE IN RAdd(f[p], RSum(f, S \ {p}))

RECURSIVE ISum(_, _)
ISum(f, S) ==
    IF S = {} THEN 0
    ELSE LET p == CHOOSE x \in S : TRUE IN f[p] + ISum(f, S \ {p})

\* the update rule as the specification writes it, applied to page p of rk
UpdateRule(rk, p) ==
    LET share == [j \in Pages |-> RDivInt(rk[j], IF corpus[j] = {} THEN N ELSE len(corpus[j]))]
        inbound == RSum(share, {j \in Pages : p \in corpus[j]})
        dangling == RSum(share, {j \in Pages : corpus[j] = {}})
    IN  RAdd(RDivInt(RSub(One, damping_factor), N),
             RMul(damping_factor, RAdd(inbound, dangling)))

Returned(f) == pc = "done" /\ fn = f /\ ret.type = "dict"

\* C1: the mapping iterate_pagerank returns is converged: one more full update
\* pass over it changes no page's rank by more than the tolerance 0.001.
C1_ReturnedMappingConverged ==
    (Returned("iterate_pagerank") /\ Pages # {} /\ InOpenUnit(damping_factor))
        => \A p \in Pages :
              RLe(RAbs(RSub(UpdateRule(ret.dict, p), ret.dict[p])), AbsTol)

\* C2: iterate_pagerank returns only after a full pass in which every page's
\* new rank is within 0.001 of its rank before that pass (it keeps making
\* passes while the last one changed some rank by more).
C2_ReturnsOnlyAfterQuietPass ==
    (Returned("iterate_pagerank") /\ Pages # {})
        => /\ passes >= 1
           /\ \A p \in Pages : RLe(RAbs(RSub(newRank[p], snapshot[p])), AbsTol)

\* C3: the ranks held after each full update pass, and the returned mapping,
\* sum to 1 over all pages, dangling pages included.
C3_RankMassConserved ==
    (fn = "iterate_pagerank" /\ Pages # {} /\ InOpenUnit(damping_factor))
        => /\ (pc = "while" /\ passes >= 1) => RSum(newRank, Pages) = One
           /\ (pc = "compare" /\ todo = {}) => RSum(rank, Pages) = One
           /\ pc = "done" => (ret.type = "dict" /\ RSum(ret.dict, Pages) = One)

C3_Witness ==
    /\ Returned("iterate_pagerank")
    /\ InOpenUnit(damping_factor)
    /\ N = MaxPages
    /\ \E p \in Pages : corpus[p] = {}
    /\ \E p \in Pages : corpus[p] # {}
    /\ \E p, q \in Pages : ret.dict[p] # ret.dict[q]

\* C4: the distribution transition_model returns has exactly the pages of the
\* corpus as keys and its values sum to 1, for a dangling page as for any other.
C4_DistributionSumsToOne ==
    Returned("transition_model")
        => /\ DOMAIN ret.dict = Pages
           /\ RSum(ret.dict, Pages) = One

C4_Witness ==
    /\ Returned("transition_model")
    /\ N >= 2
    /\ corpus[page] = {}
    /\ \E p \in Pages : corpus[p] # {}

\* C5: transition_model gives page p the probability (1-d)/N + d/outdeg(page)
\* if page links to p and (1-d)/N if it does not, when page has a link; and
\* 1/N to every p when page has none.
C5_DistributionValues ==
    Returned("transition_model")
        => \A p \in Pages :
              LET dn == damping_factor[1]
                  dd == damping_factor[2]
                  k == len(corpus[page])
              IN  ret.dict[p] =
                    IF k = 0 THEN Rat(1, N)
                    ELSE IF p \in corpus[page]
                         THEN Rat((dd - dn) * k + dn * N, dd * N * k)
                         ELSE Rat(dd - dn, dd * N)

C5_Witness ==
    /\ Returned("transition_model")
    /\ damping_factor = DAMPING
    /\ \E p \in Pages : p \in corpus[page]
    /\ \E p \in Pages : p # page /\ p \notin corpus[page]

\* C6: for a non-empty graph, d in (0,1) and n >= 1, sample_pagerank returns a
\* mapping over all pages after exactly n recorded visits, each page's rank its
\* visit count divided by n, the ranks summing to 1.
C6_SampleReturnsVisitFrequencies ==
    (fn = "sample_pagerank" /\ Pages # {} /\ InOpenUnit(damping_factor) /\ n >= 1
        /\ pc \in {"done", "raised"})
        => /\ pc = "done"
           /\ ret.type = "dict"
           /\ DOMAIN ret.dict = Pages
           /\ ISum(rank, Pages) = n
           /\ \A p \in Pages : ret.dict[p] = Rat(rank[p], n)
           /\ RSum(ret.dict, Pages) = One

\* C7: given the empty graph neither estimator returns a result.
C7_EmptyGraphRejected ==
    (Pages = {} /\ fn \in {"iterate_pagerank", "sample_pagerank"}
        /\ (fn = "sample_pagerank" => n >= 1))
        => pc # "done"

\* the uniform vector is a fixed point of the update rule for the corpus
UniformIsFixedPoint ==
    \A p \in Pages :
        LET w == [j \in Pages |-> Rat(1, IF corpus[j] = {} THEN N ELSE len(corpus[j]))]
        IN  RSum(w, {j \in Pages : p \in corpus[j] \/ corpus[j] = {}}) = One

\* C8: whenever the uniform vector is a fixed point of the update,
\* iterate_pagerank returns exactly 1/N for every page.
C8_UniformFixedPointReturned ==
    (Returned("iterate_pagerank") /\ Pages # {} /\ UniformIsFixedPoint)
        => \A p \in Pages : ret.dict[p] = Rat(1, N)

C8_Witness ==
    /\ Returned("iterate_pagerank")
    /\ damping_factor = DAMPING
    /\ N = 2
    /\ \A p \in Pages : corpus[p] = Pages \ {p}
    /\ \A p \in Pages : ret.dict[p] = <<1, 2>>

\* C9: in every update pass newRank[i] is the update rule applied to the rank
\* held when the pass began (1/N everywhere before the first pass); rank is not
\* modified while the pass runs and no newRank value of the pass is read in it.
C9_PassReadsSnapshot ==
    (fn = "iterate_pagerank" /\ (pc = "pass" \/ (pc = "while" /\ passes >= 1)))
        => /\ rank = snapshot
           /\ passes = 0 => \A p \in Pages : snapshot[p] = Rat(1, N)
           /\ \A p \in Pages \ todo : newRank[p] = UpdateRule(snapshot, p)

C9_Witness ==
    /\ fn = "iterate_pagerank"
    /\ pc = "pass"
    /\ todo = {}
    /\ N = MaxPages
    /\ \E p \in Pages : corpus[p] = {}
    /\ \E p, q \in Pages : newRank[p] # rank[p] /\ p \in corpus[q]

\* statements iterate_pagerank has still to execute, at most
StepsLeft ==
    CASE pc = "call" -> 2 * N + 5
      [] pc = "while" -> IF passes = 0 THEN 2 * N + 4 ELSE N + 2
      [] pc = "pass" -> N + 3 + len(todo)
      [] pc = "compare" -> 1 + len(todo)
      [] OTHER -> 0

====
